---------------------------- MODULE Spec2Model ----------------------------
(***************************************************************************)
(* A model of the pretty_simple document printer: the document            *)
(* constructors of src/src/doc.rs with their precomputed metrics, the      *)
(* iterative renderer Doc::render, and Parenable::maybe_surround of        *)
(* src/src/parenable.rs.                                                   *)
(*                                                                         *)
(* A String is a sequence of one-character strings.  Every character of    *)
(* the model is ASCII, so String::len (a byte count) is the length of the  *)
(* sequence.  Literal texts hold no "\n" (the documented precondition).    *)
(***************************************************************************)
EXTENDS Integers, Sequences, FiniteSets, TLC

VARIABLES
    pc,          \* "render" inside the loop of Doc::render, "done" once it returned,
                 \* "build" / "paren" in the construction specifications
    root,        \* the document render was called on (self)
    line_width,  \* render's argument
    todos,       \* render's work list (a Vec used as a stack: the top is the last element)
    eol,         \* render's end-of-line cursor
    acc,         \* render's output buffer
    log,         \* history: one record per loop iteration of render
    stack,       \* the documents a client has built so far (construction specification)
    paren,       \* the Parenable a client holds (NoParen: none yet)
    surrounded   \* the last maybe_surround call on paren: self, the target priority
                 \* and the result (NoParen: none yet)

vars == <<pc, root, line_width, todos, eol, acc, log, stack, paren, surrounded>>

-----------------------------------------------------------------------------
(* Bounds of the model *)

\* most nodes of a generically enumerated document
MaxNodes == 5
\* line widths tried on the generic documents: 0..MaxWidth
MaxWidth == 3
\* line widths tried on the named example documents: 0..MaxExampleWidth
MaxExampleWidth == 6
\* most elements handed to word_wrap_val
MaxWords == 3
\* most nodes of the documents a client holds at once (construction)
MaxBuildNodes == 5
\* most documents a client holds at once (construction)
MaxStack == 3
\* most nodes of a document wrapped in a Parenable
MaxParenNodes == 2
\* priorities given to Parenable::new and to maybe_surround: 0..MaxPriority (+ 1)
MaxPriority == 2

\* indentation amounts given to nest
NestAmounts == {2}
\* the texts of the generic literals
GenTexts == {<<"a">>, <<"b", "b">>}
\* the words handed to word_wrap_val
WrapWords == {<<"x">>, <<"y">>, <<"z">>, <<"w", "w">>}

-----------------------------------------------------------------------------
(* InnerDoc and the getters *)

Nil == [tag |-> "Nil"]

Newline == [tag |-> "Newline"]

NewlineZero == [tag |-> "NewlineZero"]

get_has_newline(d) ==
    CASE d.tag = "Nil" -> FALSE
      [] d.tag \in {"Newline", "NewlineZero"} -> TRUE
      [] d.tag \in {"Concat", "Nest", "Group"} -> d.has_newline
      [] d.tag = "Text" -> FALSE

get_dist_newline(d) ==
    CASE d.tag \in {"Concat", "Nest", "Group"} -> d.dist_newline
      [] d.tag = "Text" -> d.len
      [] OTHER -> 0

\* get_flat_len counting a flattened Newline as nothing
get_flat_len_NewlineZeroWide(d) ==
    CASE d.tag \in {"Concat", "Nest", "Group"} -> d.flat_len
      [] d.tag = "Text" -> d.len
      [] OTHER -> 0

get_flat_len(d) ==
    CASE d.tag \in {"Concat", "Nest", "Group"} -> d.flat_len
      [] d.tag = "Text" -> d.len
      [] d.tag = "Newline" -> 1
      [] OTHER -> 0

-----------------------------------------------------------------------------
(* The constructors *)

nil == Nil

text(s) == [tag |-> "Text", s |-> s, len |-> Len(s)]

nest(self, n) ==
    [tag |-> "Nest", nest |-> n, doc |-> self,
     has_newline |-> get_has_newline(self),
     dist_newline |-> get_dist_newline(self),
     flat_len |-> get_flat_len(self)]

\* concat adding the right side's distance even when the left side has a newline
concat_DistAlwaysSum(self, other) ==
    [tag |-> "Concat", lhs |-> self, rhs |-> other,
     has_newline |-> get_has_newline(self) \/ get_has_newline(other),
     dist_newline |-> get_dist_newline(self) + get_dist_newline(other),
     flat_len |-> get_flat_len(self) + get_flat_len(other)]

concat(self, other) ==
    [tag |-> "Concat", lhs |-> self, rhs |-> other,
     has_newline |-> get_has_newline(self) \/ get_has_newline(other),
     dist_newline |-> IF get_has_newline(self)
                      THEN get_dist_newline(self)
                      ELSE get_dist_newline(self) + get_dist_newline(other),
     flat_len |-> get_flat_len(self) + get_flat_len(other)]

concat_newline(self, other) == concat(concat(self, Newline), other)

concat_space(self, other) == concat(concat(self, text(<<" ">>)), other)

group(self) ==
    [tag |-> "Group", doc |-> self,
     has_newline |-> get_has_newline(self),
     dist_newline |-> get_dist_newline(self),
     flat_len |-> get_flat_len(self)]

line == Newline

newline == Newline

newline_zero == NewlineZero

surround_paren(self) == concat(concat(text(<<"(">>), self), text(<<")">>))

surround_curly(self) == concat(concat(text(<<"{">>), self), text(<<"}">>))

surround_square(self) == concat(concat(text(<<"[">>), self), text(<<"]">>))

\* as_iter.fold(fst, |acc, next| acc.concat(next)) over docs[i..]
RECURSIVE SepFold(_, _, _)
SepFold(a, docs, i) ==
    IF i > Len(docs) THEN a ELSE SepFold(concat(a, docs[i]), docs, i + 1)

sep(docs) == IF Len(docs) = 0 THEN nil ELSE SepFold(docs[1], docs, 2)

\* word_wrap_val grouping the accumulator with each join: acc.concat(..).group()
RECURSIVE WrapFold_GroupAll(_, _, _)
WrapFold_GroupAll(a, s, i) ==
    IF i > Len(s) THEN a
    ELSE WrapFold_GroupAll(group(concat(a, concat(line, s[i]))), s, i + 1)

\* s.fold(hd, |acc, elem| acc.concat(Doc::line().concat(elem).group())) over s[i..]
RECURSIVE WrapFold(_, _, _)
WrapFold(a, s, i) ==
    IF i > Len(s) THEN a
    ELSE WrapFold(concat(a, group(concat(line, s[i]))), s, i + 1)

word_wrap_val(s) == IF Len(s) = 0 THEN nil ELSE WrapFold(s[1], s, 2)

-----------------------------------------------------------------------------
(* Parenable *)

MAX_PRIORITY == 1024

Parenable_new(doc, priority) == [doc |-> doc, priority |-> priority]

Parenable_new_max(doc) == [doc |-> doc, priority |-> MAX_PRIORITY]

as_parenable_max(self) == Parenable_new_max(self)

as_parenable(self, priority) == Parenable_new(self, priority)

\* maybe_surround comparing with <= in place of <
maybe_surround_Leq(self, target_priority) ==
    IF self.priority <= target_priority
    THEN concat(concat(text(<<"(">>), self.doc), text(<<")">>))
    ELSE self.doc

maybe_surround(self, target_priority) ==
    IF self.priority < target_priority
    THEN concat(concat(text(<<"(">>), self.doc), text(<<")">>))
    ELSE self.doc

-----------------------------------------------------------------------------
(* Doc::render *)

RenderInfo_new(flatmode, nest_, dist_next_newline, line_width_) ==
    [flatmode |-> flatmode, nest |-> nest_,
     dist_next_newline |-> dist_next_newline, line_width |-> line_width_]

\* A work item (doc, info).  path is history: where doc sits under the root
\* (1: lhs or the only child, 2: rhs).
Item(doc, info, path) == [doc |-> doc, info |-> info, path |-> path]

Top == todos[Len(todos)]

Popped == SubSeq(todos, 1, Len(todos) - 1)

Spaces(n) == [i \in 1..n |-> " "]

\* lines 249-253: the distance handed to the left child of a Concat
lhs_dist_next_newline(rhs, info) ==
    IF get_has_newline(rhs)
    THEN get_dist_newline(rhs)
    ELSE get_dist_newline(rhs) + info.dist_next_newline

\* the fit test without the distance to the next newline
flat_bool_NoLookahead(info, accLen, inner, eol_) ==
    info.flatmode \/ (accLen + get_flat_len(inner) <= eol_)

\* the fit test without the inner document's flat length
flat_bool_NoFlatLen(info, accLen, inner, eol_) ==
    info.flatmode \/ (accLen + info.dist_next_newline <= eol_)

\* line 270: the mode of a Group's inner document
flat_bool(info, accLen, inner, eol_) ==
    info.flatmode \/ (accLen + get_flat_len(inner) + info.dist_next_newline <= eol_)

\* eol taken after the indentation is pushed
NewlineEol_AfterIndent(accAfterNewline, info) ==
    Len(accAfterNewline) + info.nest + info.line_width

\* lines 241-242: eol is taken right after the "\n" is pushed, before the indentation
NewlineEol(accAfterNewline, info) == Len(accAfterNewline) + info.line_width

\* lines 243-245
NewlineIndent(info) == Spaces(info.nest)

\* the left child of a Concat not inheriting the flat mode
lhs_info_NotFlat(rhs, info) ==
    RenderInfo_new(FALSE, info.nest, lhs_dist_next_newline(rhs, info), info.line_width)

\* line 255-258
lhs_info(rhs, info) ==
    RenderInfo_new(info.flatmode, info.nest, lhs_dist_next_newline(rhs, info), info.line_width)

\* Nest replacing the ambient indentation
NestInfo_Replace(spaces, info) ==
    RenderInfo_new(info.flatmode, spaces, info.dist_next_newline, info.line_width)

\* lines 263-266
NestInfo(spaces, info) ==
    RenderInfo_new(info.flatmode, info.nest + spaces, info.dist_next_newline, info.line_width)

\* line 271
GroupInfo(info, accLen, inner, eol_) ==
    RenderInfo_new(flat_bool(info, accLen, inner, eol_), info.nest,
                   info.dist_next_newline, info.line_width)

\* history: the work item an iteration popped, the output length before and after
\* it, the mode it handed to the items it pushed, and eol after it
Logged(item, flat_out, accAfter, eolAfter) ==
    Append(log, [path |-> item.path, tag |-> item.doc.tag,
                 flatmode |-> item.info.flatmode, nest |-> item.info.nest,
                 dist |-> item.info.dist_next_newline,
                 flat_out |-> flat_out,
                 before |-> Len(acc), after |-> Len(accAfter), eol |-> eolAfter])

Looping == pc = "render" /\ todos # <<>>

NoBuild == UNCHANGED <<root, line_width, stack, paren, surrounded>>

\* lines 227-232
RenderStart(doc, width) ==
    /\ pc = "render"
    /\ root = doc
    /\ line_width = width
    /\ todos = <<Item(doc, RenderInfo_new(FALSE, 0, 0, width), <<>>)>>
    /\ eol = width
    /\ acc = <<>>
    /\ log = <<>>

\* line 236
RenderNil ==
    /\ Looping
    /\ Top.doc.tag = "Nil"
    /\ todos' = Popped
    /\ log' = Logged(Top, Top.info.flatmode, acc, eol)
    /\ UNCHANGED <<pc, acc, eol>>
    /\ NoBuild

\* line 237
RenderNewlineFlat ==
    /\ Looping
    /\ Top.doc.tag = "Newline"
    /\ Top.info.flatmode
    /\ acc' = acc \o <<" ">>
    /\ todos' = Popped
    /\ log' = Logged(Top, Top.info.flatmode, acc', eol)
    /\ UNCHANGED <<pc, eol>>
    /\ NoBuild

\* line 238
RenderNewlineZeroFlat ==
    /\ Looping
    /\ Top.doc.tag = "NewlineZero"
    /\ Top.info.flatmode
    /\ todos' = Popped
    /\ log' = Logged(Top, Top.info.flatmode, acc, eol)
    /\ UNCHANGED <<pc, acc, eol>>
    /\ NoBuild

\* lines 239-246
RenderNewlineBreak ==
    /\ Looping
    /\ Top.doc.tag \in {"Newline", "NewlineZero"}
    /\ ~Top.info.flatmode
    /\ eol' = NewlineEol(acc \o <<"\n">>, Top.info)
    /\ acc' = (acc \o <<"\n">>) \o NewlineIndent(Top.info)
    /\ todos' = Popped
    /\ log' = Logged(Top, Top.info.flatmode, acc', eol')
    /\ UNCHANGED pc
    /\ NoBuild

\* line 247
RenderText ==
    /\ Looping
    /\ Top.doc.tag = "Text"
    /\ acc' = acc \o Top.doc.s
    /\ todos' = Popped
    /\ log' = Logged(Top, Top.info.flatmode, acc', eol)
    /\ UNCHANGED <<pc, eol>>
    /\ NoBuild

\* the Concat arm pushing lhs first, so that rhs is popped and rendered first
RenderConcat_RhsFirst ==
    /\ Looping
    /\ Top.doc.tag = "Concat"
    /\ todos' = Popped \o
                <<Item(Top.doc.lhs, lhs_info(Top.doc.rhs, Top.info), Top.path \o <<1>>),
                  Item(Top.doc.rhs, Top.info, Top.path \o <<2>>)>>
    /\ log' = Logged(Top, Top.info.flatmode, acc, eol)
    /\ UNCHANGED <<pc, acc, eol>>
    /\ NoBuild

\* lines 248-261
RenderConcat ==
    /\ Looping
    /\ Top.doc.tag = "Concat"
    /\ todos' = Popped \o
                <<Item(Top.doc.rhs, Top.info, Top.path \o <<2>>),
                  Item(Top.doc.lhs, lhs_info(Top.doc.rhs, Top.info), Top.path \o <<1>>)>>
    /\ log' = Logged(Top, Top.info.flatmode, acc, eol)
    /\ UNCHANGED <<pc, acc, eol>>
    /\ NoBuild

\* lines 262-268
RenderNest ==
    /\ Looping
    /\ Top.doc.tag = "Nest"
    /\ todos' = Append(Popped,
                       Item(Top.doc.doc, NestInfo(Top.doc.nest, Top.info), Top.path \o <<1>>))
    /\ log' = Logged(Top, Top.info.flatmode, acc, eol)
    /\ UNCHANGED <<pc, acc, eol>>
    /\ NoBuild

\* lines 269-273
RenderGroup ==
    /\ Looping
    /\ Top.doc.tag = "Group"
    /\ todos' = Append(Popped,
                       Item(Top.doc.doc, GroupInfo(Top.info, Len(acc), Top.doc.doc, eol),
                            Top.path \o <<1>>))
    /\ log' = Logged(Top, flat_bool(Top.info, Len(acc), Top.doc.doc, eol), acc, eol)
    /\ UNCHANGED <<pc, acc, eol>>
    /\ NoBuild

\* lines 234 and 276: the work list is empty, acc is returned
RenderReturn ==
    /\ pc = "render"
    /\ todos = <<>>
    /\ pc' = "done"
    /\ UNCHANGED <<todos, acc, eol, log>>
    /\ NoBuild

-----------------------------------------------------------------------------
(* The documents and widths render is tried on *)

Leaves == {nil, line, newline_zero} \cup {text(s) : s \in GenTexts}

RECURSIVE DocsOfSize(_)
DocsOfSize(n) ==
    IF n = 1 THEN Leaves
    ELSE {group(d) : d \in DocsOfSize(n - 1)}
         \cup {nest(d, k) : d \in DocsOfSize(n - 1), k \in NestAmounts}
         \cup UNION {{concat(l, r) : l \in DocsOfSize(i), r \in DocsOfSize(n - 1 - i)}
                     : i \in 1..(n - 2)}

GenDocs == UNION {DocsOfSize(n) : n \in 1..MaxNodes}

\* section 8, Fits-preference
FitsDoc == group(concat(concat(text(<<"a", "b">>), line), text(<<"c", "d">>)))

\* section 8, Indent applies only on break
IndentDoc == nest(group(concat(concat(text(<<"a">>), line), text(<<"b">>))), 2)

\* section 8, LineZero suppresses flat-mode space
BracketDoc == group(concat(concat(text(<<"[">>), newline_zero), text(<<"]">>)))

\* a breakable group followed by an indented breakable group
IndentedTailDoc == concat(group(line), group(nest(line, 2)))

WordSeqs == UNION {[1..n -> {text(w) : w \in WrapWords}] : n \in 0..MaxWords}

WrapDocs == {word_wrap_val(ws) : ws \in WordSeqs}

ExampleDocs == {FitsDoc, IndentDoc, BracketDoc, IndentedTailDoc} \cup WrapDocs

NoParen == [tag |-> "NoParen"]

Idle == stack = <<>> /\ paren = NoParen /\ surrounded = NoParen

Init ==
    /\ pc = "render"
    /\ \/ \E d \in GenDocs : \E w \in 0..MaxWidth : RenderStart(d, w)
       \/ \E d \in ExampleDocs : \E w \in 0..MaxExampleWidth : RenderStart(d, w)
    /\ Idle

Next ==
    \/ RenderNil
    \/ RenderNewlineFlat
    \/ RenderNewlineZeroFlat
    \/ RenderNewlineBreak
    \/ RenderText
    \/ RenderConcat
    \/ RenderNest
    \/ RenderGroup
    \/ RenderReturn

Spec == Init /\ [][Next]_vars

-----------------------------------------------------------------------------
(* What the claims speak of: positions in a document, layouts, line lengths *)

RECURSIVE NodeAt(_, _)
NodeAt(d, p) ==
    IF p = <<>> THEN d
    ELSE IF d.tag = "Concat"
         THEN NodeAt(IF p[1] = 1 THEN d.lhs ELSE d.rhs, Tail(p))
         ELSE NodeAt(d.doc, Tail(p))

IsPrefix(p, q) == Len(p) <= Len(q) /\ SubSeq(q, 1, Len(p)) = p

ProperPrefixes(p) == {SubSeq(p, 1, n) : n \in 0..(Len(p) - 1)}

\* the sum of the amounts of the Nest nodes that enclose position p of d
RECURSIVE EnclosingNest(_, _)
EnclosingNest(d, p) ==
    IF p = <<>> THEN 0
    ELSE IF d.tag = "Concat"
         THEN EnclosingNest(IF p[1] = 1 THEN d.lhs ELSE d.rhs, Tail(p))
         ELSE (IF d.tag = "Nest" THEN d.nest ELSE 0) + EnclosingNest(d.doc, Tail(p))

\* the positions of the nodes of d
RECURSIVE Paths(_)
Paths(d) ==
    {<<>>} \cup
    (IF d.tag = "Concat"
     THEN {<<1>> \o p : p \in Paths(d.lhs)} \cup {<<2>> \o p : p \in Paths(d.rhs)}
     ELSE IF d.tag \in {"Nest", "Group"}
          THEN {<<1>> \o p : p \in Paths(d.doc)}
          ELSE {})

Tags(d) == {NodeAt(d, p).tag : p \in Paths(d)}

\* every string d can be laid out as: each Group not already flat is flat or
\* broken, and a flat Group flattens all it holds
RECURSIVE Layouts(_, _, _)
Layouts(d, flat, n) ==
    CASE d.tag = "Nil" -> {<<>>}
      [] d.tag = "Newline" -> IF flat THEN {<<" ">>} ELSE {<<"\n">> \o Spaces(n)}
      [] d.tag = "NewlineZero" -> IF flat THEN {<<>>} ELSE {<<"\n">> \o Spaces(n)}
      [] d.tag = "Text" -> {d.s}
      [] d.tag = "Concat" ->
            {l \o r : l \in Layouts(d.lhs, flat, n), r \in Layouts(d.rhs, flat, n)}
      [] d.tag = "Nest" -> Layouts(d.doc, flat, n + d.nest)
      [] d.tag = "Group" ->
            IF flat THEN Layouts(d.doc, TRUE, n)
            ELSE Layouts(d.doc, TRUE, n) \cup Layouts(d.doc, FALSE, n)

\* the index of the last "\n" among the first n characters of s (0: none)
RECURSIVE LastNewline(_, _)
LastNewline(s, n) ==
    IF n = 0 THEN 0 ELSE IF s[n] = "\n" THEN n ELSE LastNewline(s, n - 1)

\* the length of the line each character of s ends, and of the last line
LineLengths(s) ==
    {i - 1 - LastNewline(s, i - 1) : i \in {j \in 1..Len(s) : s[j] = "\n"}}
    \cup {Len(s) - LastNewline(s, Len(s))}

Fits(s, w) == \A n \in LineLengths(s) : n <= w

\* the texts of the literals of d, left to right
RECURSIVE FlatText(_)
FlatText(d) ==
    CASE d.tag = "Text" -> d.s
      [] d.tag = "Concat" -> FlatText(d.lhs) \o FlatText(d.rhs)
      [] d.tag \in {"Nest", "Group"} -> FlatText(d.doc)
      [] OTHER -> <<>>

\* word_wrap as the claim states it: a join is a space exactly when the column,
\* the space and the word fit the width
RECURSIVE WrapRefFrom(_, _, _, _, _)
WrapRefFrom(out, col, ws, i, w) ==
    IF i > Len(ws) THEN out
    ELSE IF col + 1 + Len(ws[i].s) <= w
         THEN WrapRefFrom((out \o <<" ">>) \o ws[i].s, col + 1 + Len(ws[i].s), ws, i + 1, w)
         ELSE WrapRefFrom((out \o <<"\n">>) \o ws[i].s, Len(ws[i].s), ws, i + 1, w)

WrapRef(ws, w) ==
    IF Len(ws) = 0 THEN <<>> ELSE WrapRefFrom(ws[1].s, Len(ws[1].s), ws, 2, w)

LogIdx == 1..Len(log)

IsBreakTag(tg) == tg \in {"Newline", "NewlineZero"}

Done == pc = "done"

-----------------------------------------------------------------------------
(* The claims about render *)

SomeLayoutFits == \E s \in Layouts(root, FALSE, 0) : Fits(s, line_width)

\* C1 as stated: whenever some choice of flat/broken modes for the groups keeps
\* every line within line_width, the string render returns does too.
C1_FitsWheneverPossible ==
    (Done /\ SomeLayoutFits) => Fits(acc, line_width)

\* C1 amended: for a document without Nest nodes, whenever some layout keeps
\* every line within line_width, the string render returns does too.
C1_FitsWithoutNest ==
    (Done /\ "Nest" \notin Tags(root) /\ SomeLayoutFits) => Fits(acc, line_width)

\* C1 witness: a Nest-free document with a group, of which some layout fits and
\* another does not, has been rendered and the result fits.
C1_Witness ==
    /\ Done
    /\ "Nest" \notin Tags(root)
    /\ "Group" \in Tags(root)
    /\ SomeLayoutFits
    /\ \E s \in Layouts(root, FALSE, 0) : ~Fits(s, line_width)
    /\ Fits(acc, line_width)
    /\ \E i \in LogIdx : log[i].tag = "Group" /\ ~log[i].flat_out

\* C2 as stated: the Fits-preference document renders as "ab cd" at every width
\* >= 4 and as "ab\ncd" at every width < 4.
C2_FitsPreferenceAt4 ==
    (Done /\ root = FitsDoc) =>
        acc = IF line_width >= 4 THEN <<"a", "b", " ", "c", "d">>
                                 ELSE <<"a", "b", "\n", "c", "d">>

\* C2 amended: the Fits-preference document renders as "ab cd" at every width
\* >= 5 (its flat length) and as "ab\ncd", with no indentation, at every width < 5.
C2_FitsPreferenceAt5 ==
    (Done /\ root = FitsDoc) =>
        acc = IF line_width >= 5 THEN <<"a", "b", " ", "c", "d">>
                                 ELSE <<"a", "b", "\n", "c", "d">>

\* C2 witness: the document was rendered flat at width 5, the least width that
\* holds "ab cd".
C2_Witness ==
    /\ Done
    /\ root = FitsDoc
    /\ line_width = 5
    /\ acc = <<"a", "b", " ", "c", "d">>

\* C4: word_wrap over literals renders each join as a space exactly when column
\* + 1 + length of the next element is within the width, and as a newline
\* otherwise; [x, y, z] at width 3 or 4 renders as "x y\nz".
C4_WordWrapIndependence ==
    /\ (Done /\ root \in WrapDocs) =>
          \A ws \in WordSeqs : root = word_wrap_val(ws) => acc = WrapRef(ws, line_width)
    /\ (Done /\ line_width \in {3, 4}
        /\ root = word_wrap_val(<<text(<<"x">>), text(<<"y">>), text(<<"z">>)>>))
       => acc = <<"x", " ", "y", "\n", "z">>

\* C4 witness: [x, y, z] was rendered with the first join flat and the second broken.
C4_Witness ==
    /\ Done
    /\ root = word_wrap_val(<<text(<<"x">>), text(<<"y">>), text(<<"z">>)>>)
    /\ line_width = 3
    /\ acc = <<"x", " ", "y", "\n", "z">>

\* C5: a Line/LineZero rendered broken appends "\n" and then exactly as many
\* spaces as the amounts of the Nest nodes enclosing it add up to; rendered flat
\* it appends one space (Line) or nothing (LineZero), no indentation; the Indent
\* example renders as "a b" at width >= 3 and as "a\n  b" below.
C5_IndentOnlyOnBreak ==
    /\ \A i \in LogIdx :
          LET e == log[i] IN
          IsBreakTag(e.tag) =>
              IF e.flatmode
              THEN /\ e.after = e.before + (IF e.tag = "Newline" THEN 1 ELSE 0)
                   /\ e.tag = "Newline" => acc[e.after] = " "
              ELSE /\ e.after = e.before + 1 + EnclosingNest(root, e.path)
                   /\ acc[e.before + 1] = "\n"
                   /\ \A j \in (e.before + 2)..e.after : acc[j] = " "
    /\ (Done /\ root = IndentDoc) =>
          acc = IF line_width >= 3 THEN <<"a", " ", "b">>
                                   ELSE <<"a", "\n", " ", " ", "b">>

\* C5 witness: a Line/LineZero under two Nest nodes was rendered broken, after
\* some output, and four spaces follow its newline.
C5_Witness ==
    \E i \in LogIdx : /\ IsBreakTag(log[i].tag)
                      /\ ~log[i].flatmode
                      /\ EnclosingNest(root, log[i].path) = 4
                      /\ log[i].before > 0
                      /\ log[i].after = log[i].before + 5

\* a group of flat length 0 encloses position p of d
InEmptyGroup(d, p) ==
    \E q \in ProperPrefixes(p) :
        NodeAt(d, q).tag = "Group" /\ get_flat_len(NodeAt(d, q).doc) = 0

\* C6 as stated: at line_width 0 every Line and every LineZero is rendered as a
\* newline (none is rendered in flat mode).
C6_WidthZeroBreaksAll ==
    line_width = 0 =>
        /\ \A i \in LogIdx : IsBreakTag(log[i].tag) => ~log[i].flatmode
        /\ Done => \A p \in Paths(root) :
                      IsBreakTag(NodeAt(root, p).tag) =>
                          \E i \in LogIdx : log[i].path = p /\ ~log[i].flatmode

\* C6 amended: at line_width 0 every Line is rendered as a newline, and so is
\* every LineZero that no group of flat length 0 encloses; a group is laid out
\* flat only when its flat length is 0, so no group holding a Line is.
C6_WidthZeroBreaksLines ==
    line_width = 0 =>
        /\ \A i \in LogIdx :
              LET e == log[i] IN
              /\ e.tag = "Newline" => ~e.flatmode
              /\ (e.tag = "NewlineZero" /\ e.flatmode) => InEmptyGroup(root, e.path)
              /\ (e.tag = "Group" /\ e.flat_out) =>
                     get_flat_len(NodeAt(root, e.path).doc) = 0
        /\ Done => \A p \in Paths(root) :
                      (\/ NodeAt(root, p).tag = "Newline"
                       \/ NodeAt(root, p).tag = "NewlineZero" /\ ~InEmptyGroup(root, p))
                      => \E i \in LogIdx : log[i].path = p /\ ~log[i].flatmode

\* C6 witness: at width 0 a group holding a Line was laid out broken and a
\* LineZero in a group of flat length 0 was rendered flat.
C6_Witness ==
    /\ Done
    /\ line_width = 0
    /\ \E i \in LogIdx : /\ log[i].tag = "Group"
                         /\ ~log[i].flat_out
                         /\ "Newline" \in Tags(NodeAt(root, log[i].path))
    /\ \E i \in LogIdx : log[i].tag = "NewlineZero" /\ log[i].flatmode

BreakFree(d) == Tags(d) \subseteq {"Text", "Concat", "Group"}

\* C7: a document of literals, concats and groups only renders, at every width,
\* as its literal texts in left-to-right order, a string of length flat_len.
C7_BreakFreeWidthIndependent ==
    (Done /\ BreakFree(root)) =>
        /\ acc = FlatText(root)
        /\ Len(acc) = get_flat_len(root)

\* C7 witness: a break-free document with a group and two different literals
\* under a Concat was rendered at a width less than its flat length.
C7_Witness ==
    /\ Done
    /\ BreakFree(root)
    /\ "Group" \in Tags(root)
    /\ \E p \in Paths(root) : /\ NodeAt(root, p).tag = "Concat"
                              /\ FlatText(NodeAt(root, p).lhs) # FlatText(NodeAt(root, p).rhs)
                              /\ NodeAt(root, p).lhs.tag = "Text"
    /\ line_width < get_flat_len(root)
    /\ acc = FlatText(root)

\* the log entries after entry i for the nodes below log[i]'s node
Below(i) == {j \in LogIdx : j > i /\ IsPrefix(log[i].path, log[j].path)}

\* the number of characters the entries js appended
RECURSIVE Appended(_)
Appended(js) ==
    IF js = {} THEN 0
    ELSE LET j == CHOOSE k \in js : TRUE
         IN (log[j].after - log[j].before) + Appended(js \ {j})

\* no work item for a node at or below position p is pending
Finished(p) == \A k \in 1..Len(todos) : ~IsPrefix(p, todos[k].path)

\* C9: once a Group is processed in flat mode (inherited or decided by the fit
\* test), every later work item of its subtree is in flat mode, no newline is
\* emitted for it (Line: one space, LineZero: nothing), the subtree appends
\* exactly flat_len(inner) characters, and no node is processed twice.
C9_FlatInherited ==
    /\ \A i \in LogIdx :
          (log[i].tag = "Group" /\ log[i].flat_out) =>
              /\ \A j \in Below(i) :
                    /\ log[j].flatmode
                    /\ log[j].flat_out
                    /\ \A k \in (log[j].before + 1)..log[j].after : acc[k] # "\n"
                    /\ log[j].tag = "Newline" =>
                           log[j].after = log[j].before + 1 /\ acc[log[j].after] = " "
                    /\ log[j].tag = "NewlineZero" => log[j].after = log[j].before
              /\ \A k \in 1..Len(todos) :
                    IsPrefix(log[i].path, todos[k].path) => todos[k].info.flatmode
              /\ Finished(log[i].path) =>
                    Appended(Below(i)) = get_flat_len(NodeAt(root, log[i].path).doc)
    /\ \A i, j \in LogIdx : log[i].path = log[j].path => i = j

\* C9 witness: a Group the fit test decided flat, holding a nested Group and a
\* Line, was rendered to its end.
C9_Witness ==
    \E i \in LogIdx :
        /\ log[i].tag = "Group"
        /\ ~log[i].flatmode
        /\ log[i].flat_out
        /\ Finished(log[i].path)
        /\ \E j \in Below(i) : log[j].tag = "Group"
        /\ \E j \in Below(i) : log[j].tag = "Newline"
        /\ Appended(Below(i)) > 1

\* C10 as stated: a Line/LineZero rendered broken sets eol to the output length
\* after the newline and the indentation, plus line_width.
C10_EolAfterIndentation ==
    \A i \in LogIdx :
        (IsBreakTag(log[i].tag) /\ ~log[i].flatmode) =>
            log[i].eol = log[i].after + line_width

\* C10 amended: a Line/LineZero rendered broken with nesting n emits the newline
\* and then n spaces, and sets eol to the output length measured right after the
\* newline (before the n spaces) plus line_width; eol keeps that value until the
\* next broken Line/LineZero, and each Group's fit test compares against it, so
\* that the indentation counts toward the line's width.
C10_EolBeforeIndentation ==
    /\ \A i \in LogIdx :
          LET e == log[i] IN
          /\ (IsBreakTag(e.tag) /\ ~e.flatmode) =>
                 /\ e.eol = e.before + 1 + line_width
                 /\ e.after = e.before + 1 + e.nest
                 /\ acc[e.before + 1] = "\n"
          /\ e.eol = LastNewline(acc, e.after) + line_width
          /\ e.tag = "Group" =>
                 (e.flat_out <=>
                     \/ e.flatmode
                     \/ (e.before - LastNewline(acc, e.before))
                          + get_flat_len(NodeAt(root, e.path).doc) + e.dist <= line_width)
    /\ eol = LastNewline(acc, Len(acc)) + line_width

\* C10 witness: a Line/LineZero was rendered broken with indentation, and a later
\* Group on that line was tested against the eol it set.
C10_Witness ==
    \E i \in LogIdx :
        /\ IsBreakTag(log[i].tag)
        /\ ~log[i].flatmode
        /\ log[i].nest > 0
        /\ \E j \in LogIdx : /\ j > i
                             /\ log[j].tag = "Group"
                             /\ log[j].eol = log[i].eol
                             /\ ~log[j].flatmode

-----------------------------------------------------------------------------
(* Construction: a client builds documents with the combinators.  stack holds
   the documents it has; a combinator takes its arguments from the top.        *)

RenderIdle ==
    /\ root = nil
    /\ line_width = 0
    /\ todos = <<>>
    /\ eol = 0
    /\ acc = <<>>
    /\ log = <<>>

NoRender == UNCHANGED <<pc, root, line_width, todos, eol, acc, log>>

Nodes(d) == Cardinality(Paths(d))

RECURSIVE StackNodes(_)
StackNodes(st) == IF st = <<>> THEN 0 ELSE Nodes(Head(st)) + StackNodes(Tail(st))

\* the stack with its top n documents replaced by d, within the bounds
Replace(n, d) ==
    /\ pc = "build"
    /\ Len(stack) >= n
    /\ Len(stack) - n + 1 <= MaxStack
    /\ stack' = Append(SubSeq(stack, 1, Len(stack) - n), d)
    /\ StackNodes(stack') <= MaxBuildNodes
    /\ UNCHANGED <<paren, surrounded>>
    /\ NoRender

Arg(k) == stack[Len(stack) - k]

BuildNil == Replace(0, nil)

BuildText == \E s \in GenTexts : Replace(0, text(s))

BuildLine == Replace(0, line)

BuildNewline == Replace(0, newline)

BuildNewlineZero == Replace(0, newline_zero)

BuildNest == \E n \in NestAmounts : Len(stack) >= 1 /\ Replace(1, nest(Arg(0), n))

BuildGroup == Len(stack) >= 1 /\ Replace(1, group(Arg(0)))

BuildConcat == Len(stack) >= 2 /\ Replace(2, concat(Arg(1), Arg(0)))

BuildConcatNewline == Len(stack) >= 2 /\ Replace(2, concat_newline(Arg(1), Arg(0)))

BuildConcatSpace == Len(stack) >= 2 /\ Replace(2, concat_space(Arg(1), Arg(0)))

BuildSurroundParen == Len(stack) >= 1 /\ Replace(1, surround_paren(Arg(0)))

BuildSurroundCurly == Len(stack) >= 1 /\ Replace(1, surround_curly(Arg(0)))

BuildSurroundSquare == Len(stack) >= 1 /\ Replace(1, surround_square(Arg(0)))

\* sep and word_wrap_val over all the documents the client holds
BuildSep == Replace(Len(stack), sep(stack))

BuildWordWrap == Replace(Len(stack), word_wrap_val(stack))

\* the client drops the document on top
BuildDrop ==
    /\ pc = "build"
    /\ stack # <<>>
    /\ stack' = SubSeq(stack, 1, Len(stack) - 1)
    /\ UNCHANGED <<paren, surrounded>>
    /\ NoRender

InitBuild ==
    /\ pc = "build"
    /\ Idle
    /\ RenderIdle

NextBuild ==
    \/ BuildNil
    \/ BuildText
    \/ BuildLine
    \/ BuildNewline
    \/ BuildNewlineZero
    \/ BuildNest
    \/ BuildGroup
    \/ BuildConcat
    \/ BuildConcatNewline
    \/ BuildConcatSpace
    \/ BuildSurroundParen
    \/ BuildSurroundCurly
    \/ BuildSurroundSquare
    \/ BuildSep
    \/ BuildWordWrap
    \/ BuildDrop

SpecBuild == InitBuild /\ [][NextBuild]_vars

\* every node of every document the client holds
BuiltNodes == UNION {{NodeAt(stack[k], p) : p \in Paths(stack[k])} : k \in 1..Len(stack)}

\* C3: every Concat node has has_newline = has_newline(lhs) \/ has_newline(rhs),
\* flat_len = flat_len(lhs) + flat_len(rhs), and dist_newline = dist_newline(lhs)
\* when lhs has a newline, dist_newline(lhs) + dist_newline(rhs) otherwise.
C3_ConcatMetricLaw ==
    \A d \in BuiltNodes :
        d.tag = "Concat" =>
            /\ d.has_newline = (get_has_newline(d.lhs) \/ get_has_newline(d.rhs))
            /\ d.flat_len = get_flat_len(d.lhs) + get_flat_len(d.rhs)
            /\ d.dist_newline = IF get_has_newline(d.lhs)
                                THEN get_dist_newline(d.lhs)
                                ELSE get_dist_newline(d.lhs) + get_dist_newline(d.rhs)
            /\ get_has_newline(d) = d.has_newline
            /\ get_flat_len(d) = d.flat_len
            /\ get_dist_newline(d) = d.dist_newline

\* C3 witness: the client holds a Concat whose left side has a break after some
\* text and whose right side has text before any break, and one whose left side
\* has no break and whose right side has.
C3_Witness ==
    /\ \E d \in BuiltNodes : /\ d.tag = "Concat"
                             /\ get_has_newline(d.lhs)
                             /\ get_dist_newline(d.rhs) > 0
                             /\ d.dist_newline = get_dist_newline(d.lhs)
                             /\ d.flat_len > d.dist_newline
    /\ \E d \in BuiltNodes : /\ d.tag = "Concat"
                             /\ ~get_has_newline(d.lhs)
                             /\ get_has_newline(d.rhs)
                             /\ get_dist_newline(d.lhs) > 0

-----------------------------------------------------------------------------
(* Parenthesization: a client wraps a document in a Parenable and asks for it
   at a context priority.                                                      *)

ParenDocs == UNION {DocsOfSize(n) : n \in 1..MaxParenNodes}

Priorities == 0..MaxPriority

Targets == (0..(MaxPriority + 1)) \cup {MAX_PRIORITY, MAX_PRIORITY + 1}

NoDocs == UNCHANGED <<stack, root, line_width, todos, eol, acc, log, pc>>

ParenNew ==
    /\ pc = "paren"
    /\ \E d \in ParenDocs : \E p \in Priorities : paren' = as_parenable(d, p)
    /\ surrounded' = NoParen
    /\ NoDocs

ParenNewMax ==
    /\ pc = "paren"
    /\ \E d \in ParenDocs : paren' = as_parenable_max(d)
    /\ surrounded' = NoParen
    /\ NoDocs

MaybeSurround ==
    /\ pc = "paren"
    /\ paren # NoParen
    /\ \E c \in Targets :
          surrounded' = [self |-> paren, target |-> c, result |-> maybe_surround(paren, c)]
    /\ UNCHANGED paren
    /\ NoDocs

InitParen ==
    /\ pc = "paren"
    /\ Idle
    /\ RenderIdle

NextParen ==
    \/ ParenNew
    \/ ParenNewMax
    \/ MaybeSurround

SpecParen == InitParen /\ [][NextParen]_vars

\* "(" ++ d ++ ")"
InParens(d) == d.tag = "Concat" /\ d.lhs.tag = "Concat"
               /\ d.lhs.lhs = text(<<"(">>) /\ d.rhs = text(<<")">>)

\* C8: maybe_surround(c) on a Parenable of priority p returns "(" ++ doc ++ ")"
\* exactly when p < c (so always at c = p + 1), and the wrapped document itself,
\* unchanged, whenever c <= p.
C8_ParenThreshold ==
    surrounded # NoParen =>
        LET p == surrounded.self.priority
            d == surrounded.self.doc
            c == surrounded.target
            r == surrounded.result
        IN /\ (p < c) <=> (InParens(r) /\ r.lhs.rhs = d)
           /\ (p < c) => FlatText(r) = (<<"(">> \o FlatText(d)) \o <<")">>
           /\ (c = p + 1) => (InParens(r) /\ r.lhs.rhs = d)
           /\ (c <= p) => r = d

\* C8 witness: a Parenable of priority p was asked at p + 1 and came back in
\* parentheses.
C8_Witness ==
    /\ surrounded # NoParen
    /\ surrounded.target = surrounded.self.priority + 1
    /\ InParens(surrounded.result)
    /\ surrounded.self.priority > 0

=============================================================================
